---- MODULE Spec2Model ----
(***************************************************************************)
(* Model of the photo-album import scripts:                                *)
(*   src/create_album.py        EXIF extraction, captions, album batch     *)
(*   src/utils/create_album.py  WebP album batch                           *)
(*   src/utils/convert_webp.py  in-place WebP batch conversion             *)
(*                                                                         *)
(* Conventions of the model                                                *)
(*  - A Python value is a record tagged by its type in field t.  Every     *)
(*    type has its own payload field names, so values of different types   *)
(*    are comparable (and different).                                      *)
(*  - Text is a sequence of one-character strings, so that strip(),        *)
(*    strptime() and the f-string formats are computed character by        *)
(*    character.  The non-ASCII literals of the code are written by an     *)
(*    ASCII stand-in, named where they are defined.                        *)
(*  - A Python float is the exact rational n/d in lowest terms (d > 0).    *)
(*    IEEE rounding of the quotient is not modelled; the bounded inputs    *)
(*    are chosen so that the formats' rounding ties are exactly            *)
(*    representable.                                                       *)
(*  - A dict over a bounded key universe is a function on that universe    *)
(*    whose absent keys map to Absent (what dict.get returns: None).       *)
(***************************************************************************)
EXTENDS Integers, Sequences, FiniteSets, TLC

(***************************************************************************)
(* Bounds of the model.                                                    *)
(***************************************************************************)
\* numerators of the rational tag values range over 0..MaxNum
MaxNum == 3
\* denominators of the rational tag values range over 0..MaxDen
MaxDen == 5
\* number of eligible image files in a source directory: 0..MaxFiles
MaxFiles == 2

(***************************************************************************)
(* Python values.                                                          *)
(***************************************************************************)
Absent == [t |-> "absent"]
PyInt(i) == [t |-> "int", i |-> i]
Rational(n, d) == [t |-> "rational", num |-> n, den |-> d]
Str(s) == [t |-> "str", s |-> s]
Bytes(s, valid) == [t |-> "bytes", raw |-> s, utf8 |-> valid]
List(items) == [t |-> "list", items |-> items]
Tuple(items) == [t |-> "tuple", elems |-> items]
Dict(m) == [t |-> "dict", m |-> m]

Abs(x) == IF x < 0 THEN -x ELSE x

RECURSIVE GCD(_, _)
GCD(a, b) == IF b = 0 THEN a ELSE GCD(b, a % b)

\* The float n/d (d # 0), in lowest terms with a positive denominator.
Float(n, d) ==
    LET g == GCD(Abs(n), Abs(d))
        s == IF d < 0 THEN -1 ELSE 1
    IN [t |-> "float", fn |-> (s * n) \div g, fd |-> (s * d) \div g]

FAdd(x, y) == Float(x.fn * y.fd + y.fn * x.fd, x.fd * y.fd)
FDivInt(x, k) == Float(x.fn, x.fd * k)
FNeg(x) == Float(-x.fn, x.fd)
FLess(x, y) == x.fn * y.fd < y.fn * x.fd
FOne == Float(1, 1)

\* int(n/d): truncation toward zero (d # 0).
Trunc(n, d) == IF (n < 0) = (d < 0) THEN Abs(n) \div Abs(d) ELSE -(Abs(n) \div Abs(d))

\* The nearest integer to n/d (n >= 0, d > 0), ties to the even neighbour:
\* what round() and the format mini-language do on an exact value.
RoundHalfEven(n, d) ==
    LET q == n \div d
        r == n % d
    IN IF 2 * r < d THEN q
       ELSE IF 2 * r > d THEN q + 1
       ELSE IF q % 2 = 0 THEN q ELSE q + 1

RECURSIVE Pow10(_)
Pow10(k) == IF k = 0 THEN 1 ELSE 10 * Pow10(k - 1)

(***************************************************************************)
(* Text.                                                                   *)
(***************************************************************************)
DigitChars == <<"0", "1", "2", "3", "4", "5", "6", "7", "8", "9">>
IsDigit(c) == \E k \in 1..10 : DigitChars[k] = c
DigitVal(c) == (CHOOSE k \in 1..10 : DigitChars[k] = c) - 1
IsSpace(c) == c = " "

RECURSIVE Digits(_)
Digits(n) == IF n < 10 THEN <<DigitChars[n + 1]>>
             ELSE Digits(n \div 10) \o <<DigitChars[(n % 10) + 1]>>

IntStr(i) == IF i < 0 THEN <<"-">> \o Digits(-i) ELSE Digits(i)

\* n in exactly w digits, zero padded (n < 10^w).
RECURSIVE Pad(_, _)
Pad(n, w) == IF w = 0 THEN <<>> ELSE Pad(n \div 10, w - 1) \o <<DigitChars[(n % 10) + 1]>>

RECURSIVE Number(_)
Number(s) == IF s = <<>> THEN 0 ELSE 10 * Number(SubSeq(s, 1, Len(s) - 1)) + DigitVal(s[Len(s)])

AllDigits(s) == s # <<>> /\ \A k \in 1..Len(s) : IsDigit(s[k])

RECURSIVE LStrip(_)
LStrip(s) == IF s # <<>> /\ IsSpace(s[1]) THEN LStrip(Tail(s)) ELSE s
RECURSIVE RStrip(_)
RStrip(s) == IF s # <<>> /\ IsSpace(s[Len(s)]) THEN RStrip(SubSeq(s, 1, Len(s) - 1)) ELSE s
\* str.strip()
Strip(s) == RStrip(LStrip(s))

\* The first k decimals of r/d (0 <= r < d) as a number, by long division, and the
\* remainder left after them.
RECURSIVE Decimals(_, _, _)
Decimals(r, d, k) ==
    IF k = 0 THEN [digits |-> 0, rem |-> r]
    ELSE LET p == Decimals(r, d, k - 1)
         IN [digits |-> 10 * p.digits + (10 * p.rem) \div d, rem |-> (10 * p.rem) % d]

\* f"{x:.kf}" of the float x: k decimals, the last one rounded to nearest, ties
\* to even.
FormatFixed(x, k) ==
    LET n == Abs(x.fn)
        p == Decimals(n % x.fd, x.fd, k)
        last == IF k = 0 THEN n \div x.fd ELSE p.digits
        up == 2 * p.rem > x.fd \/ (2 * p.rem = x.fd /\ last % 2 = 1)
        carry == up /\ (k = 0 \/ p.digits + 1 = Pow10(k))
        whole == Digits(n \div x.fd + (IF carry THEN 1 ELSE 0))
        frac == IF k = 0 THEN <<>>
                ELSE <<".">> \o Pad(IF carry THEN 0 ELSE IF up THEN p.digits + 1 ELSE p.digits, k)
    IN (IF x.fn < 0 THEN <<"-">> ELSE <<>>) \o whole \o frac

\* Python truthiness (None, zero, and empty containers are false).
Truthy(v) ==
    CASE v.t = "absent" -> FALSE
      [] v.t = "int" -> v.i # 0
      [] v.t = "float" -> v.fn # 0
      [] v.t = "str" -> v.s # <<>>
      [] v.t = "bytes" -> v.raw # <<>>
      [] v.t = "list" -> v.items # <<>>
      [] v.t = "tuple" -> v.elems # <<>>
      [] v.t = "dict" -> \E k \in DOMAIN v.m : v.m[k] # Absent
      [] OTHER -> TRUE

\* str(v), for the values that reach it: text, integers, and floats with a whole
\* value (repr "k.0").
PyStr(v) ==
    CASE v.t = "str" -> v.s
      [] v.t = "int" -> IntStr(v.i)
      [] v.t = "float" /\ v.fd = 1 -> IntStr(v.fn) \o <<".", "0">>

\* str(b) of a bytes object that is not valid UTF-8: its repr b'...'.
BytesRepr(s) == <<"b", "'">> \o s \o <<"'">>

\* float(v): [ok |-> TRUE, val |-> a float] or [ok |-> FALSE] (TypeError, ValueError).
\* Text is accepted when it is a run of decimal digits, which is the numeric text
\* the inputs contain.
ToFloat(v) ==
    CASE v.t = "float" -> [ok |-> TRUE, val |-> v]
      [] v.t = "int" -> [ok |-> TRUE, val |-> Float(v.i, 1)]
      [] v.t = "str" /\ AllDigits(v.s) -> [ok |-> TRUE, val |-> Float(Number(v.s), 1)]
      [] OTHER -> [ok |-> FALSE]

(***************************************************************************)
(* src/create_album.py: normalisation and formatting helpers.              *)
(***************************************************************************)

\* hasattr(obj, 'numerator') and hasattr(obj, 'denominator'): true of the
\* library's rational type and also of Python's own int.
HasNumerator(obj) == obj.t \in {"rational", "int"}
Numerator(obj) == IF obj.t = "int" THEN obj.i ELSE obj.num
Denominator(obj) == IF obj.t = "int" THEN 1 ELSE obj.den

RECURSIVE convert_to_serializable(_)
\* Variant of convert_to_serializable whose ZeroDivisionError handler returns the
\* numerator instead of 0.
convert_to_serializable_NoZeroGuard(obj) ==
    IF HasNumerator(obj)
    THEN IF Denominator(obj) = 0
         THEN Float(Numerator(obj), 1)
         ELSE Float(Numerator(obj), Denominator(obj))
    ELSE IF obj.t = "list"
    THEN List([k \in DOMAIN obj.items |-> convert_to_serializable(obj.items[k])])
    ELSE IF obj.t = "tuple"
    THEN List([k \in DOMAIN obj.elems |-> convert_to_serializable(obj.elems[k])])
    ELSE IF obj.t = "dict"
    THEN Dict([k \in DOMAIN obj.m |-> convert_to_serializable(obj.m[k])])
    ELSE IF obj.t = "bytes"
    THEN IF obj.utf8 THEN Str(obj.raw) ELSE Str(BytesRepr(obj.raw))
    ELSE obj

convert_to_serializable(obj) ==
    IF HasNumerator(obj)
    THEN IF Denominator(obj) = 0
         THEN PyInt(0)                                   \* except ZeroDivisionError
         ELSE Float(Numerator(obj), Denominator(obj))
    ELSE IF obj.t = "list"
    THEN List([k \in DOMAIN obj.items |-> convert_to_serializable(obj.items[k])])
    ELSE IF obj.t = "tuple"
    THEN List([k \in DOMAIN obj.elems |-> convert_to_serializable(obj.elems[k])])
    ELSE IF obj.t = "dict"
    THEN Dict([k \in DOMAIN obj.m |-> convert_to_serializable(obj.m[k])])
    ELSE IF obj.t = "bytes"
    THEN IF obj.utf8 THEN Str(obj.raw) ELSE Str(BytesRepr(obj.raw))
    ELSE obj

\* Variant of decimal_coords that negates for "S" only.
decimal_coords_SouthOnly(coords, ref) ==
    IF coords.t = "list" /\ Len(coords.items) >= 3
       /\ \A k \in 1..3 : ToFloat(coords.items[k]).ok
    THEN LET deg == ToFloat(coords.items[1]).val
             min == ToFloat(coords.items[2]).val
             sec == ToFloat(coords.items[3]).val
             decimal_degrees == FAdd(FAdd(deg, FDivInt(min, 60)), FDivInt(sec, 3600))
         IN IF ref = Str(<<"S">>) THEN FNeg(decimal_degrees) ELSE decimal_degrees
    ELSE Absent

\* decimal_coords: the float, or Absent (None) when anything raised.
decimal_coords(coords, ref) ==
    IF coords.t = "list" /\ Len(coords.items) >= 3
       /\ \A k \in 1..3 : ToFloat(coords.items[k]).ok
    THEN LET deg == ToFloat(coords.items[1]).val
             min == ToFloat(coords.items[2]).val
             sec == ToFloat(coords.items[3]).val
             decimal_degrees == FAdd(FAdd(deg, FDivInt(min, 60)), FDivInt(sec, 3600))
         IN IF ref = Str(<<"S">>) \/ ref = Str(<<"W">>)
            THEN FNeg(decimal_degrees)
            ELSE decimal_degrees
    ELSE Absent

\* Variant of get_gps_coordinates that does not require the two reference tags.
get_gps_coordinates_NoRefCheck(gps_info) ==
    LET gps_latitude == gps_info["GPSLatitude"]
        gps_longitude == gps_info["GPSLongitude"]
    IN IF Truthy(gps_latitude) /\ Truthy(gps_longitude)
       THEN LET lat == decimal_coords(gps_latitude, gps_info["GPSLatitudeRef"])
                lon == decimal_coords(gps_longitude, gps_info["GPSLongitudeRef"])
            IN IF lat # Absent /\ lon # Absent THEN <<lat, lon>> ELSE <<Absent, Absent>>
       ELSE <<Absent, Absent>>

\* get_gps_coordinates: <<lat, lon>>, or <<Absent, Absent>> for (None, None).
get_gps_coordinates(gps_info) ==
    LET gps_latitude == gps_info["GPSLatitude"]
        gps_latitude_ref == gps_info["GPSLatitudeRef"]
        gps_longitude == gps_info["GPSLongitude"]
        gps_longitude_ref == gps_info["GPSLongitudeRef"]
    IN IF Truthy(gps_latitude) /\ Truthy(gps_latitude_ref)
          /\ Truthy(gps_longitude) /\ Truthy(gps_longitude_ref)
       THEN LET lat == decimal_coords(gps_latitude, gps_latitude_ref)
                lon == decimal_coords(gps_longitude, gps_longitude_ref)
            IN IF lat # Absent /\ lon # Absent THEN <<lat, lon>> ELSE <<Absent, Absent>>
       ELSE <<Absent, Absent>>

\* format_exposure_time: always text.
format_exposure_time(exposure_time) ==
    LET f == ToFloat(exposure_time)
    IN IF f.ok /\ ~(FLess(f.val, FOne) /\ f.val.fn = 0)
       THEN IF FLess(f.val, FOne)
            THEN <<"1", "/">> \o IntStr(Trunc(f.val.fd, f.val.fn))
            ELSE FormatFixed(f.val, 1)
       ELSE PyStr(exposure_time)                         \* bare except

\* safe_float: the float, or Absent (None).
safe_float(value) ==
    IF HasNumerator(value)
    THEN IF Denominator(value) = 0 THEN Absent
         ELSE Float(Numerator(value), Denominator(value))
    ELSE IF ToFloat(value).ok THEN ToFloat(value).val ELSE Absent

(***************************************************************************)
(* Timestamps: datetime.strptime and strftime.                             *)
(***************************************************************************)
IsLeap(y) == (y % 4 = 0 /\ y % 100 # 0) \/ y % 400 = 0
DaysIn(y, m) ==
    IF m = 2 THEN (IF IsLeap(y) THEN 29 ELSE 28)
    ELSE IF m \in {4, 6, 9, 11} THEN 30 ELSE 31

\* strptime(s, '%Y<sep>%m<sep>%d %H:%M:%S') on the zero-padded 19-character
\* form: [ok |-> TRUE, Y, m, d, H, M, S] or [ok |-> FALSE] (ValueError).
strptime(s, sep) ==
    IF /\ Len(s) = 19
       /\ s[5] = sep /\ s[8] = sep /\ s[11] = " " /\ s[14] = ":" /\ s[17] = ":"
       /\ \A k \in (1..19) \ {5, 8, 11, 14, 17} : IsDigit(s[k])
    THEN LET Y == Number(SubSeq(s, 1, 4))
             m == Number(SubSeq(s, 6, 7))
             d == Number(SubSeq(s, 9, 10))
             H == Number(SubSeq(s, 12, 13))
             M == Number(SubSeq(s, 15, 16))
             S == Number(SubSeq(s, 18, 19))
         IN IF /\ Y >= 1 /\ m \in 1..12 /\ d >= 1 /\ d <= DaysIn(Y, m)
               /\ H <= 23 /\ M <= 59 /\ S <= 59
            THEN [ok |-> TRUE, Y |-> Y, m |-> m, d |-> d, H |-> H, M |-> M, S |-> S]
            ELSE [ok |-> FALSE]
    ELSE [ok |-> FALSE]

\* dt.strftime('%Y-%m-%d %H:%M:%S')
strftime_iso(dt) ==
    Pad(dt.Y, 4) \o <<"-">> \o Pad(dt.m, 2) \o <<"-">> \o Pad(dt.d, 2) \o <<" ">>
    \o Pad(dt.H, 2) \o <<":">> \o Pad(dt.M, 2) \o <<":">> \o Pad(dt.S, 2)

\* ASCII stand-ins of the code's CJK literals: U+5E74 (year), U+6708 (month),
\* U+65E5 (day), and U+7167 U+7247 (the word "photo").
YearSign == <<"Y">>
MonthSign == <<"M">>
DaySign == <<"D">>
PhotoWord == <<"P", "h", "o", "t", "o">>

\* dt.strftime('%m<month>%d<day> %H:%M')
strftime_short(dt) ==
    Pad(dt.m, 2) \o MonthSign \o Pad(dt.d, 2) \o DaySign \o <<" ">>
    \o Pad(dt.H, 2) \o <<":">> \o Pad(dt.M, 2)

\* dt.strftime('%Y<year>%m<month>%d<day> %H:%M')
strftime_long(dt) ==
    Pad(dt.Y, 4) \o YearSign \o Pad(dt.m, 2) \o MonthSign \o Pad(dt.d, 2) \o DaySign
    \o <<" ">> \o Pad(dt.H, 2) \o <<":">> \o Pad(dt.M, 2)

(***************************************************************************)
(* src/create_album.py: extract_exif_data.                                 *)
(***************************************************************************)
GpsKeys == {"GPSLatitude", "GPSLatitudeRef", "GPSLongitude", "GPSLongitudeRef"}
PlainTags == {"Make", "Model", "Software", "DateTimeOriginal", "ExposureTime",
              "FNumber", "FocalLength", "ISOSpeedRatings"}
RawTags == PlainTags \cup {"GPSInfo"}
DerivedKeys == {"GPS", "ExposureTimeFormatted", "FocalLengthFormatted", "FNumberFormatted"}
ExifKeys == PlainTags \cup DerivedKeys

\* {}
EmptyDict == [k \in ExifKeys |-> Absent]
IsEmptyDict(d) == \A k \in ExifKeys : d[k] = Absent

\* The loop over the tags, for the tags other than GPSInfo:
\* exif_dict[tag] = convert_to_serializable(data).
ReadTags(tags) ==
    [k \in ExifKeys |-> IF k \in PlainTags THEN convert_to_serializable(tags[k]) ELSE Absent]

\* The loop over the tags, for GPSInfo: every sub-tag converted into gps_info; a
\* value that cannot be iterated (an IFD offset) raises inside the inner try and
\* leaves gps_info empty.
ReadGps(tags) ==
    IF tags["GPSInfo"].t = "dict"
    THEN [k \in GpsKeys |-> convert_to_serializable(tags["GPSInfo"].m[k])]
    ELSE [k \in GpsKeys |-> Absent]

\* Variant of NormalizeDate without the inner try: a parse error reaches the
\* outer handler, which returns {}.
NormalizeDate_Unguarded(exif_dict) ==
    LET datetime_original == exif_dict["DateTimeOriginal"]
    IN IF Truthy(datetime_original)
       THEN LET dt == strptime(PyStr(datetime_original), ":")
            IN IF dt.ok
               THEN [exif_dict EXCEPT !["DateTimeOriginal"] = Str(strftime_iso(dt))]
               ELSE [k \in DOMAIN exif_dict |-> Absent]
       ELSE exif_dict

\* DateTimeOriginal 'YYYY:MM:DD HH:MM:SS' rewritten as 'YYYY-MM-DD HH:MM:SS'; on a
\* parse error the entry keeps what it held.
NormalizeDate(exif_dict) ==
    LET datetime_original == exif_dict["DateTimeOriginal"]
    IN IF Truthy(datetime_original)
       THEN LET dt == strptime(PyStr(datetime_original), ":")
            IN IF dt.ok
               THEN [exif_dict EXCEPT !["DateTimeOriginal"] = Str(strftime_iso(dt))]
               ELSE exif_dict
       ELSE exif_dict

GpsEntry(lat, lon) ==
    Dict([latitude |-> lat, longitude |-> lon,
          coordinates |-> Str(FormatFixed(lat, 6) \o <<",", " ">> \o FormatFixed(lon, 6))])

AddGps(exif_dict, gps_info) ==
    IF \E k \in GpsKeys : gps_info[k] # Absent
    THEN LET c == get_gps_coordinates(gps_info)
         IN IF c[1] # Absent /\ c[2] # Absent
            THEN [exif_dict EXCEPT !["GPS"] = GpsEntry(c[1], c[2])]
            ELSE exif_dict
    ELSE exif_dict

AddExposure(exif_dict) ==
    LET exposure_time == exif_dict["ExposureTime"]
    IN IF exposure_time # Absent
       THEN [exif_dict EXCEPT !["ExposureTimeFormatted"] = Str(format_exposure_time(exposure_time))]
       ELSE exif_dict

AddFocalLength(exif_dict) ==
    LET focal_length == safe_float(exif_dict["FocalLength"])
    IN IF focal_length # Absent
       THEN [exif_dict EXCEPT !["FocalLengthFormatted"] = Str(FormatFixed(focal_length, 0) \o <<"m", "m">>)]
       ELSE exif_dict

AddFNumber(exif_dict) ==
    LET f_number == safe_float(exif_dict["FNumber"])
    IN IF f_number # Absent
       THEN [exif_dict EXCEPT !["FNumberFormatted"] = Str(<<"f", "/">> \o FormatFixed(f_number, 1))]
       ELSE exif_dict

CleanStrings(exif_dict) ==
    [k \in ExifKeys |->
        IF k \in {"Make", "Model", "Software"} /\ Truthy(exif_dict[k])
        THEN Str(Strip(PyStr(exif_dict[k])))
        ELSE exif_dict[k]]

\* image: [opens |-> whether Image.open and getexif succeed, tags |-> the tag map].
extract_exif_data(image, available) ==
    IF ~available THEN EmptyDict
    ELSE IF ~image.opens THEN EmptyDict                  \* except Exception: return {}
    ELSE IF \A k \in RawTags : image.tags[k] = Absent THEN EmptyDict
    ELSE CleanStrings(AddFNumber(AddFocalLength(AddExposure(
            AddGps(NormalizeDate(ReadTags(image.tags)), ReadGps(image.tags))))))

(***************************************************************************)
(* src/create_album.py: format_exif_for_display, captions, front matter.   *)
(***************************************************************************)
\* An exception that leaves the function.
Raise(exc) == [t |-> "raise", exc |-> exc]

\* exif_data.get(key, '').strip(): the text, or AttributeError for a stored value
\* that is not text.
GetStripped(exif_data, key) ==
    IF exif_data[key] = Absent THEN Str(<<>>)
    ELSE IF exif_data[key].t = "str" THEN Str(Strip(exif_data[key].s))
    ELSE Raise("AttributeError")

\* ASCII stand-ins of the emoji that open the four sections of the summary.
CameraMark == <<"[", "c", "a", "m", "]", " ">>
ParamsMark == <<"[", "p", "a", "r", "]", " ">>
DateMark == <<"[", "d", "a", "t", "e", "]", " ">>
PlaceMark == <<"[", "g", "p", "s", "]", " ">>

\* sep.join(parts)
RECURSIVE Join(_, _)
Join(parts, sep) ==
    IF parts = <<>> THEN <<>>
    ELSE IF Len(parts) = 1 THEN parts[1]
    ELSE parts[1] \o sep \o Join(Tail(parts), sep)

CameraName(make, model) == Strip(make.s \o <<" ">> \o model.s)

DisplayParams(exif_data) ==
    (IF Truthy(exif_data["FNumberFormatted"])
        THEN <<exif_data["FNumberFormatted"].s>> ELSE <<>>)
    \o (IF Truthy(exif_data["ExposureTimeFormatted"])
        THEN <<exif_data["ExposureTimeFormatted"].s \o <<"s">> >> ELSE <<>>)
    \o (IF Truthy(exif_data["ISOSpeedRatings"])
        THEN << <<"I", "S", "O">> \o PyStr(exif_data["ISOSpeedRatings"]) >> ELSE <<>>)
    \o (IF Truthy(exif_data["FocalLengthFormatted"])
        THEN <<exif_data["FocalLengthFormatted"].s>> ELSE <<>>)

format_exif_for_display(exif_data) ==
    IF IsEmptyDict(exif_data) THEN Str(<<>>)
    ELSE LET make == GetStripped(exif_data, "Make")
             model == GetStripped(exif_data, "Model")
         IN IF make.t = "raise" THEN make
            ELSE IF model.t = "raise" THEN model
            ELSE LET params == DisplayParams(exif_data)
                     info_parts ==
                        (IF make.s # <<>> /\ model.s # <<>>
                            THEN <<CameraMark \o CameraName(make, model)>> ELSE <<>>)
                        \o (IF params # <<>>
                            THEN <<ParamsMark \o Join(params, <<" ", "|", " ">>)>> ELSE <<>>)
                        \o (IF Truthy(exif_data["DateTimeOriginal"])
                            THEN <<DateMark \o PyStr(exif_data["DateTimeOriginal"])>> ELSE <<>>)
                        \o (IF Truthy(exif_data["GPS"])
                            THEN <<PlaceMark \o exif_data["GPS"].m.coordinates.s>> ELSE <<>>)
                 IN Str(Join(info_parts, <<"\n">>))

\* Variant of default_caption whose fallback numbers the photos from 0.
default_caption_ZeroBased(exif_data, i) ==
    LET fallback == PhotoWord \o <<" ">> \o IntStr(i)
    IN IF Truthy(exif_data["DateTimeOriginal"])
       THEN IF exif_data["DateTimeOriginal"].t = "str"
            THEN LET dt == strptime(exif_data["DateTimeOriginal"].s, "-")
                 IN IF dt.ok THEN strftime_short(dt) ELSE fallback
            ELSE fallback
       ELSE fallback

\* The caption of the photo at 0-based position i (create_album, the default
\* caption): the short date when DateTimeOriginal parses as 'YYYY-MM-DD HH:MM:SS',
\* else the word "photo" and the 1-based position.
default_caption(exif_data, i) ==
    LET fallback == PhotoWord \o <<" ">> \o IntStr(i + 1)
    IN IF Truthy(exif_data["DateTimeOriginal"])
       THEN IF exif_data["DateTimeOriginal"].t = "str"
            THEN LET dt == strptime(exif_data["DateTimeOriginal"].s, "-")
                 IN IF dt.ok THEN strftime_short(dt) ELSE fallback
            ELSE fallback                                \* TypeError, bare except
       ELSE fallback

\* location
photo_location(exif_data) ==
    IF Truthy(exif_data["GPS"])
    THEN <<"(">> \o exif_data["GPS"].m.coordinates.s \o <<")">>
    ELSE <<>>

\* The exif block the front matter holds for one photo: the text that follows each
\* YAML key, Absent for a key that is not written.
FrontKeys == {"camera", "datetime", "aperture", "shutter", "iso", "focal_length", "gps"}
front_matter_exif(exif) ==
    LET make == GetStripped(exif, "Make")
        model == GetStripped(exif, "Model")
    IN IF make.t = "raise" THEN make
       ELSE IF model.t = "raise" THEN model
       ELSE Dict([k \in FrontKeys |->
            CASE k = "camera" ->
                    IF make.s # <<>> /\ model.s # <<>>
                    THEN Str(CameraName(make, model)) ELSE Absent
              [] k = "datetime" ->
                    IF Truthy(exif["DateTimeOriginal"])
                    THEN Str(PyStr(exif["DateTimeOriginal"])) ELSE Absent
              [] k = "aperture" ->
                    IF Truthy(exif["FNumberFormatted"]) THEN exif["FNumberFormatted"] ELSE Absent
              [] k = "shutter" ->
                    IF Truthy(exif["ExposureTimeFormatted"])
                    THEN Str(exif["ExposureTimeFormatted"].s \o <<"s">>) ELSE Absent
              [] k = "iso" ->
                    IF Truthy(exif["ISOSpeedRatings"])
                    THEN Str(PyStr(exif["ISOSpeedRatings"])) ELSE Absent
              [] k = "focal_length" ->
                    IF Truthy(exif["FocalLengthFormatted"])
                    THEN exif["FocalLengthFormatted"] ELSE Absent
              [] k = "gps" ->
                    IF Truthy(exif["GPS"]) THEN exif["GPS"].m.coordinates ELSE Absent])

(***************************************************************************)
(* Inputs: the tag values an image file may carry.                         *)
(***************************************************************************)
T_Make == <<" ", "C", "a", "n", "o", "n", " ">>
T_Model == <<"R", "5">>
T_Software == <<"v", "1", " ">>
T_Date == <<"2", "0", "2", "4", ":", "1", "1", ":", "0", "6", " ",
            "1", "4", ":", "3", "0", ":", "2", "2">>
\* well formed, but February 30
T_DateNoSuchDay == <<"2", "0", "2", "4", ":", "0", "2", ":", "3", "0", " ",
                     "1", "0", ":", "0", "0", ":", "0", "0">>
\* a date with no time of day
T_DateShort == <<"2", "0", "2", "4", "-", "1", "1", "-", "0", "6">>
\* dashes where the tag format has colons
T_DateDashed == <<"2", "0", "2", "4", "-", "1", "1", "-", "0", "6", " ",
                  "1", "4", ":", "3", "0", ":", "2", "2">>
T_Junk == <<"a", "b", "c">>

Rationals == {Rational(n, d) : n \in 0..MaxNum, d \in 0..MaxDen}

\* degrees, minutes, seconds as the library gives them: a tuple of rationals
DMS(a, b, c) == Tuple(<<Rational(a, 1), Rational(b, 1), Rational(c, 1)>>)
Coordinates ==
    {DMS(a, b, c) : a \in 0..MaxNum, b \in {0, 30}, c \in {0, 15}}
    \cup {Tuple(<<Rational(39, 1), Rational(54, 1), Rational(1503, 100)>>),
          Tuple(<<Rational(39, 1), Rational(54, 1)>>),
          Tuple(<<Rational(39, 1), Str(T_Junk), Rational(15, 1)>>),
          Tuple(<<Rational(39, 1), Rational(54, 0), Rational(15, 1)>>),
          Tuple(<<>>)}
Refs == {Str(<<"N">>), Str(<<"S">>), Str(<<"E">>), Str(<<"W">>), Str(<<"n">>)}

GpsInfos ==
    {Dict([k \in GpsKeys |->
            CASE k = "GPSLatitude" -> lat
              [] k = "GPSLatitudeRef" -> latref
              [] k = "GPSLongitude" -> DMS(116, 24, 27)
              [] k = "GPSLongitudeRef" -> Str(<<"E">>)]) :
        lat \in Coordinates \cup {Absent}, latref \in Refs \cup {Absent}}
    \cup
    {Dict([k \in GpsKeys |->
            CASE k = "GPSLatitude" -> DMS(39, 54, 15)
              [] k = "GPSLatitudeRef" -> Str(<<"N">>)
              [] k = "GPSLongitude" -> lon
              [] k = "GPSLongitudeRef" -> lonref]) :
        lon \in Coordinates \cup {Absent}, lonref \in Refs \cup {Absent}}
    \cup {Dict([k \in GpsKeys |-> Absent]), PyInt(26)}

\* The value a tag has in a typical photograph.
Typical(tag) ==
    CASE tag = "Make" -> Str(T_Make)
      [] tag = "Model" -> Str(T_Model)
      [] tag = "Software" -> Str(T_Software)
      [] tag = "DateTimeOriginal" -> Str(T_Date)
      [] tag = "ExposureTime" -> Rational(1, 200)
      [] tag = "FNumber" -> Rational(14, 5)
      [] tag = "FocalLength" -> Rational(35, 1)
      [] tag = "ISOSpeedRatings" -> PyInt(100)
      [] tag = "GPSInfo" ->
            Dict([k \in GpsKeys |->
                CASE k = "GPSLatitude" -> DMS(39, 54, 15)
                  [] k = "GPSLatitudeRef" -> Str(<<"N">>)
                  [] k = "GPSLongitude" -> DMS(116, 24, 27)
                  [] k = "GPSLongitudeRef" -> Str(<<"W">>)])

\* Every value a tag is given when it is the tag under study.
Values(tag) ==
    CASE tag = "Make" ->
            {Str(T_Make), Str(<<>>), Str(<<" ">>), PyInt(0), PyInt(7), Rational(0, 0),
             Bytes(<<"C">>, TRUE), Bytes(<<"C">>, FALSE), Tuple(<<>>)}
      [] tag = "Model" -> {Str(T_Model), Str(<<>>), PyInt(0), Bytes(T_Model, TRUE)}
      [] tag = "Software" -> {Str(T_Software), PyInt(0)}
      [] tag = "DateTimeOriginal" ->
            {Str(T_Date), Str(T_DateNoSuchDay), Str(T_DateShort), Str(T_DateDashed),
             Str(T_Junk), Str(<<>>), PyInt(2024), Bytes(T_Date, TRUE)}
      [] tag = "ExposureTime" -> Rationals \cup {Str(T_Junk), PyInt(2), PyInt(0), Str(<<"4">>)}
      [] tag = "FNumber" ->
            Rationals \cup {Rational(14, 5), Rational(5, 4), Str(T_Junk), Str(<<"8">>), PyInt(4)}
      [] tag = "FocalLength" ->
            Rationals \cup {Rational(35, 1), Rational(5, 2), Str(T_Junk), Str(<<"5", "0">>),
                            Tuple(<<Rational(35, 1)>>)}
      [] tag = "ISOSpeedRatings" -> {PyInt(100), PyInt(0), PyInt(3200)}
      [] tag = "GPSInfo" -> GpsInfos

\* The tags that are present or absent independently of the tag under study; the
\* other shooting parameters come with the exposure time, and Software is present
\* only when it is the tag under study.
CrossTags == {"Make", "Model", "DateTimeOriginal", "ExposureTime", "FocalLength", "GPSInfo"}
Switch(tag) == IF tag \in {"FNumber", "ISOSpeedRatings"} THEN "ExposureTime" ELSE tag

TagMaps ==
    {[k \in RawTags |->
        IF k = focus THEN v ELSE IF Switch(k) \in on THEN Typical(k) ELSE Absent] :
        <<focus, v>> \in UNION {{<<f, w>> : w \in Values(f)} : f \in RawTags},
        on \in SUBSET CrossTags}

NoTags == [k \in RawTags |-> Absent]

(***************************************************************************)
(* src/utils/create_album.py: get_photo_datetime, compress_to_webp.        *)
(***************************************************************************)
\* The loop over the EXIF items <<tag, value>> in the file's order: the first
\* DateTime or DateTimeOriginal decides, formatted when it parses and as it is
\* when it does not.
RECURSIVE FirstDateItem(_)
FirstDateItem(items) ==
    IF items = <<>> THEN Str(<<>>)
    ELSE IF items[1][1] \in {"DateTime", "DateTimeOriginal"}
    THEN LET value == items[1][2]
             dt == IF value.t = "str" THEN strptime(value.s, ":") ELSE [ok |-> FALSE]
         IN IF dt.ok THEN Str(strftime_long(dt)) ELSE value
    ELSE FirstDateItem(Tail(items))

\* file: [opens |-> whether Image.open succeeds, items |-> its EXIF items]
get_photo_datetime(file, available) ==
    IF ~available THEN Str(<<>>)
    ELSE IF ~file.opens THEN Str(<<>>)                   \* except: pass
    ELSE FirstDateItem(file.items)

\* compress_to_webp: the suffix of the file written, or the exception of the last
\* resort, the plain copy, which nothing catches.  webp_ok, jpeg_ok, copy_ok: whether
\* the WebP save, the JPEG save and shutil.copy2 succeed.
compress_to_webp(available, opens, webp_ok, jpeg_ok, copy_ok) ==
    IF ~available
    THEN IF copy_ok THEN Str(<<".", "j", "p", "g">>) ELSE Raise("OSError")
    ELSE IF opens /\ webp_ok THEN Str(<<".", "w", "e", "b", "p">>)
    ELSE IF opens /\ jpeg_ok THEN Str(<<".", "j", "p", "g">>)
    ELSE IF copy_ok THEN Str(<<".", "j", "p", "g">>)
    ELSE Raise("OSError")

(***************************************************************************)
(* State.                                                                  *)
(***************************************************************************)
VARIABLES
    EXIF_AVAILABLE,  \* create_album.py: whether the imaging library was imported
    PIL_AVAILABLE,   \* utils/create_album.py: whether the imaging library was imported
    \* one photo through extraction and rendering
    image,           \* the image file handed to extract_exif_data
    stage,           \* "input", "extracted", "rendered" ("idle" during a batch)
    exif_data,       \* what extract_exif_data returned
    index,           \* the 0-based position of the photo in its batch
    exif_info,       \* format_exif_for_display(exif_data)
    caption,         \* the default caption of the photo
    location,        \* the location text of the photo
    front,           \* the exif block of the photo's front matter
    \* a batch run of one of the three scripts
    script,          \* "album", "webp_album", "convert" ("none" outside a batch)
    pc,              \* "start", "loop", "write", "done"
    config_exists,   \* album: whether _config.yml is beside the script
    source_exists,   \* whether the source directory exists
    extract_exif,    \* album: the extract_exif argument
    delete_original, \* convert: the delete_original argument
    disk,            \* the eligible files of the source directory, by name
    listing,         \* their names in the order the directory scan returns them
    image_files,     \* the list the loop runs over
    i,               \* the number of files the loop has finished
    photos_data,     \* the photo records built so far
    exif_summary,    \* album: photos per camera
    success_count,   \* convert: conversions that succeeded
    deleted_count,   \* convert: originals deleted
    error_files,     \* convert: the names of the files that raised
    on_disk,         \* convert: the source files still present
    converted,       \* convert: the source files whose .webp was written
    written,         \* the documents written at the end
    result           \* "running", then "True", "False", "None" or "raised"

photoVars == <<image, stage, exif_data, index, exif_info, caption, location, front>>
batchVars == <<script, pc, config_exists, source_exists, extract_exif, delete_original,
               disk, listing, image_files, i, photos_data, exif_summary, success_count,
               deleted_count, error_files, on_disk, converted, written, result>>
vars == <<EXIF_AVAILABLE, PIL_AVAILABLE, photoVars, batchVars>>

\* the largest 0-based position a photo is rendered at
MaxIndex == 4

Images ==
    {[opens |-> TRUE, tags |-> m] : m \in TagMaps}
    \cup {[opens |-> FALSE, tags |-> NoTags], [opens |-> TRUE, tags |-> NoTags]}

PhotoIdle ==
    /\ image = [opens |-> FALSE, tags |-> NoTags]
    /\ stage = "idle"
    /\ exif_data = EmptyDict
    /\ index = 0
    /\ exif_info = Absent
    /\ caption = Absent
    /\ location = Absent
    /\ front = Absent

BatchIdle ==
    /\ script = "none"
    /\ pc = "done"
    /\ config_exists = TRUE
    /\ source_exists = TRUE
    /\ extract_exif = TRUE
    /\ delete_original = TRUE
    /\ disk = <<>>
    /\ listing = <<>>
    /\ image_files = <<>>
    /\ i = 0
    /\ photos_data = <<>>
    /\ exif_summary = <<>>
    /\ success_count = 0
    /\ deleted_count = 0
    /\ error_files = <<>>
    /\ on_disk = {}
    /\ converted = {}
    /\ written = Absent
    /\ result = "running"

(***************************************************************************)
(* One photo through extraction and rendering: the body of create_album's  *)
(* loop from the call of extract_exif_data to the photo's record.          *)
(***************************************************************************)
InitExif ==
    /\ EXIF_AVAILABLE \in BOOLEAN
    /\ PIL_AVAILABLE = TRUE
    /\ image \in Images
    /\ EXIF_AVAILABLE = FALSE =>
            image.tags \in {NoTags, [k \in RawTags |-> Typical(k)]}
    /\ stage = "input"
    /\ exif_data = EmptyDict
    /\ index = 0
    /\ exif_info = Absent
    /\ caption = Absent
    /\ location = Absent
    /\ front = Absent
    /\ BatchIdle

Extract ==
    /\ stage = "input"
    /\ stage' = "extracted"
    /\ exif_data' = extract_exif_data(image, EXIF_AVAILABLE)
    /\ UNCHANGED <<EXIF_AVAILABLE, PIL_AVAILABLE, image, index, exif_info, caption,
                   location, front, batchVars>>

Render ==
    /\ stage = "extracted"
    /\ stage' = "rendered"
    /\ \E n \in 0..MaxIndex : index' = n
    /\ caption' = Str(default_caption(exif_data, index'))
    /\ location' = Str(photo_location(exif_data))
    /\ exif_info' = format_exif_for_display(exif_data)
    /\ front' = IF IsEmptyDict(exif_data) THEN Absent ELSE front_matter_exif(exif_data)
    /\ UNCHANGED <<EXIF_AVAILABLE, PIL_AVAILABLE, image, exif_data, batchVars>>

NextExif == Extract \/ Render

SpecExif == InitExif /\ [][NextExif]_vars

(***************************************************************************)
(* Batch runs.  A file name is a number: the order of the numbers stands   *)
(* for the lexical order of the names.                                     *)
(***************************************************************************)
FullTags == [k \in RawTags |-> Typical(k)]

\* The image files an album source directory is filled with.
AlbumFiles ==
    {[opens |-> TRUE, tags |-> FullTags],
     [opens |-> TRUE, tags |-> [FullTags EXCEPT !["DateTimeOriginal"] = Str(T_DateShort)]],
     [opens |-> TRUE, tags |-> [FullTags EXCEPT !["DateTimeOriginal"] = Str(T_DateDashed)]],
     [opens |-> TRUE, tags |-> [FullTags EXCEPT !["DateTimeOriginal"] = Absent]],
     [opens |-> TRUE, tags |-> [NoTags EXCEPT !["Make"] = PyInt(0)]],
     [opens |-> TRUE, tags |-> NoTags],
     [opens |-> FALSE, tags |-> NoTags]}

\* The same for the WebP album script, which reads the EXIF items in file order.
WebpFiles ==
    {[opens |-> TRUE, items |-> <<>>],
     [opens |-> FALSE, items |-> <<>>],
     [opens |-> TRUE, items |-> << <<"Make", Str(T_Make)>>, <<"DateTimeOriginal", Str(T_Date)>> >>],
     [opens |-> TRUE, items |-> << <<"DateTime", Str(T_DateShort)>>,
                                   <<"DateTimeOriginal", Str(T_Date)>> >>],
     [opens |-> TRUE, items |-> << <<"Make", Str(T_Make)>> >>]}

ConvertFiles == {[opens |-> TRUE], [opens |-> FALSE]}

FilesOf(s) ==
    CASE s = "album" -> AlbumFiles
      [] s = "webp_album" -> WebpFiles
      [] s = "convert" -> ConvertFiles

\* Every order in which a scan may return n names.
Orders(n) == {o \in [1..n -> 1..n] : \A a, b \in 1..n : a # b => o[a] # o[b]}

\* list.sort(key=lambda x: x.name): insertion into an ascending list.
RECURSIVE Insert(_, _)
Insert(sorted, x) ==
    IF sorted = <<>> THEN <<x>>
    ELSE IF x < sorted[1] THEN <<x>> \o sorted
    ELSE <<sorted[1]>> \o Insert(Tail(sorted), x)
RECURSIVE SortByName(_)
SortByName(files) ==
    IF files = <<>> THEN <<>>
    ELSE Insert(SortByName(SubSeq(files, 1, Len(files) - 1)), files[Len(files)])

Init ==
    /\ PhotoIdle
    /\ script \in {"album", "webp_album", "convert"}
    /\ pc = "start"
    /\ EXIF_AVAILABLE \in (IF script = "album" THEN BOOLEAN ELSE {TRUE})
    /\ PIL_AVAILABLE \in (IF script = "webp_album" THEN BOOLEAN ELSE {TRUE})
    /\ config_exists \in (IF script = "album" THEN BOOLEAN ELSE {TRUE})
    /\ extract_exif \in (IF script = "album" THEN BOOLEAN ELSE {TRUE})
    /\ delete_original \in (IF script = "convert" THEN BOOLEAN ELSE {TRUE})
    /\ source_exists \in BOOLEAN
    /\ \E n \in 0..MaxFiles :
            /\ disk \in [1..n -> FilesOf(script)]
            /\ listing \in Orders(n)
            /\ on_disk = 1..n
    /\ ~source_exists => listing = <<>>
    /\ image_files = <<>>
    /\ i = 0
    /\ photos_data = <<>>
    /\ exif_summary = <<>>
    /\ success_count = 0
    /\ deleted_count = 0
    /\ error_files = <<>>
    /\ converted = {}
    /\ written = Absent
    /\ result = "running"

Return(value) == pc' = "done" /\ result' = value

(***************************************************************************)
(* src/create_album.py: create_album.                                      *)
(***************************************************************************)
AlbumStart ==
    /\ script = "album" /\ pc = "start"
    /\ IF ~config_exists \/ ~source_exists \/ listing = <<>>
       THEN Return("False") /\ UNCHANGED image_files
       ELSE /\ image_files' = SortByName(listing)
            /\ pc' = "loop"
            /\ UNCHANGED result
    /\ UNCHANGED <<EXIF_AVAILABLE, PIL_AVAILABLE, photoVars, script, config_exists,
                   source_exists, extract_exif, delete_original, disk, listing, i,
                   photos_data, exif_summary, success_count, deleted_count, error_files,
                   on_disk, converted, written>>

\* The record of the photo at 0-based position n.
AlbumPhotoData(n, name, exif) ==
    LET exif_display == format_exif_for_display(exif)
    IN [image |-> [pos |-> n + 1, name |-> name],
        caption |-> Str(default_caption(exif, n)),
        location |-> Str(photo_location(exif)),
        exif |-> IF IsEmptyDict(exif) THEN Absent ELSE exif,
        exif_display |-> IF IsEmptyDict(exif) \/ exif_display.s = <<>>
                         THEN Absent ELSE exif_display]

\* exif_summary[camera] = exif_summary.get(camera, 0) + 1
CountCamera(summary, camera) ==
    [c \in DOMAIN summary \cup {camera} |->
        IF c = camera THEN (IF c \in DOMAIN summary THEN summary[c] + 1 ELSE 1)
        ELSE summary[c]]

\* One turn of the loop.  copy_ok: whether shutil.copy2 succeeds.
AlbumPhoto ==
    /\ script = "album" /\ pc = "loop" /\ i < Len(image_files)
    /\ \E copy_ok \in BOOLEAN :
        LET name == image_files[i + 1]
            exif == IF extract_exif /\ EXIF_AVAILABLE
                    THEN extract_exif_data(disk[name], EXIF_AVAILABLE)
                    ELSE EmptyDict
            make == GetStripped(exif, "Make")
            model == GetStripped(exif, "Model")
            raised == \/ (extract_exif /\ EXIF_AVAILABLE
                            /\ (make.t = "raise" \/ model.t = "raise"))
                      \/ ~copy_ok
        IN IF raised
           THEN /\ Return("raised")
                /\ UNCHANGED <<i, photos_data, exif_summary>>
           ELSE /\ exif_summary' =
                    IF extract_exif /\ EXIF_AVAILABLE /\ make.s # <<>> /\ model.s # <<>>
                    THEN CountCamera(exif_summary, CameraName(make, model))
                    ELSE exif_summary
                /\ photos_data' = Append(photos_data, AlbumPhotoData(i, name, exif))
                /\ i' = i + 1
                /\ pc' = IF i + 1 = Len(image_files) THEN "write" ELSE "loop"
                /\ UNCHANGED result
    /\ UNCHANGED <<EXIF_AVAILABLE, PIL_AVAILABLE, photoVars, script, config_exists,
                   source_exists, extract_exif, delete_original, disk, listing,
                   image_files, success_count, deleted_count, error_files, on_disk, converted,
                   written>>

\* The front matter's photo list and the exif_data.json sidecar.
AlbumDocuments(photos) ==
    LET with_exif == SelectSeq(photos, LAMBDA ph : ph.exif # Absent)
    IN [cover_image |-> photos[1].image,
        photos |-> [k \in DOMAIN photos |->
                        [image |-> photos[k].image,
                         caption |-> photos[k].caption,
                         location |-> photos[k].location,
                         exif |-> IF photos[k].exif = Absent THEN Absent
                                  ELSE front_matter_exif(photos[k].exif)]],
        json |-> IF extract_exif /\ with_exif # <<>>
                 THEN [k \in DOMAIN with_exif |->
                        [filename |-> with_exif[k].image,
                         exif |-> convert_to_serializable(Dict(with_exif[k].exif))]]
                 ELSE Absent]

AlbumWrite ==
    /\ script = "album" /\ pc = "write"
    /\ written' = AlbumDocuments(photos_data)
    /\ Return("True")
    /\ UNCHANGED <<EXIF_AVAILABLE, PIL_AVAILABLE, photoVars, script, config_exists,
                   source_exists, extract_exif, delete_original, disk, listing,
                   image_files, i, photos_data, exif_summary, success_count,
                   deleted_count, error_files, on_disk, converted>>

(***************************************************************************)
(* src/utils/create_album.py: create_album.                                *)
(***************************************************************************)
WebpStart ==
    /\ script = "webp_album" /\ pc = "start"
    /\ IF ~source_exists \/ listing = <<>>
       THEN Return("False") /\ UNCHANGED image_files
       ELSE /\ image_files' = SortByName(listing)
            /\ pc' = "loop"
            /\ UNCHANGED result
    /\ UNCHANGED <<EXIF_AVAILABLE, PIL_AVAILABLE, photoVars, script, config_exists,
                   source_exists, extract_exif, delete_original, disk, listing, i,
                   photos_data, exif_summary, success_count, deleted_count, error_files,
                   on_disk, converted, written>>

\* 'caption': photo_datetime if photo_datetime else ""
WebpCaption(photo_datetime) == IF Truthy(photo_datetime) THEN photo_datetime ELSE Str(<<>>)

WebpPhoto ==
    /\ script = "webp_album" /\ pc = "loop" /\ i < Len(image_files)
    /\ \E webp_ok, jpeg_ok, copy_ok \in BOOLEAN :
        LET name == image_files[i + 1]
            photo_datetime == get_photo_datetime(disk[name], PIL_AVAILABLE)
            final_file == compress_to_webp(PIL_AVAILABLE, disk[name].opens,
                                           webp_ok, jpeg_ok, copy_ok)
        IN IF final_file.t = "raise"
           THEN Return("raised") /\ UNCHANGED <<i, photos_data>>
           ELSE /\ photos_data' = Append(photos_data,
                        [path |-> [pos |-> i + 1, name |-> name, suffix |-> final_file],
                         caption |-> WebpCaption(photo_datetime)])
                /\ i' = i + 1
                /\ pc' = IF i + 1 = Len(image_files) THEN "write" ELSE "loop"
                /\ UNCHANGED result
    /\ UNCHANGED <<EXIF_AVAILABLE, PIL_AVAILABLE, photoVars, script, config_exists,
                   source_exists, extract_exif, delete_original, disk, listing,
                   image_files, exif_summary, success_count, deleted_count, error_files,
                   on_disk, converted, written>>

WebpWrite ==
    /\ script = "webp_album" /\ pc = "write"
    /\ written' = [cover_image |-> photos_data[1].path, photos |-> photos_data]
    /\ Return("True")
    /\ UNCHANGED <<EXIF_AVAILABLE, PIL_AVAILABLE, photoVars, script, config_exists,
                   source_exists, extract_exif, delete_original, disk, listing,
                   image_files, i, photos_data, exif_summary, success_count,
                   deleted_count, error_files, on_disk, converted>>

(***************************************************************************)
(* src/utils/convert_webp.py: batch_convert.                               *)
(***************************************************************************)
ConvertStart ==
    /\ script = "convert" /\ pc = "start"
    /\ IF listing = <<>>
       THEN Return("None") /\ UNCHANGED image_files
       ELSE /\ image_files' = listing
            /\ pc' = "loop"
            /\ UNCHANGED result
    /\ UNCHANGED <<EXIF_AVAILABLE, PIL_AVAILABLE, photoVars, script, config_exists,
                   source_exists, extract_exif, delete_original, disk, listing, i,
                   photos_data, exif_summary, success_count, deleted_count, error_files,
                   on_disk, converted, written>>

\* One turn of the loop.  save_ok: whether convert_to_webp returns for a file that
\* opens; unlink_ok: whether source_path.unlink() succeeds.
ConvertFile ==
    /\ script = "convert" /\ pc = "loop" /\ i < Len(image_files)
    /\ \E save_ok, unlink_ok \in BOOLEAN :
        LET source_path == image_files[i + 1]
            saved == disk[source_path].opens /\ save_ok
        IN /\ success_count' = IF saved THEN success_count + 1 ELSE success_count
           /\ deleted_count' = IF saved /\ delete_original /\ unlink_ok
                               THEN deleted_count + 1 ELSE deleted_count
           /\ on_disk' = IF saved /\ delete_original /\ unlink_ok
                         THEN on_disk \ {source_path} ELSE on_disk
           /\ error_files' = IF ~saved \/ (delete_original /\ ~unlink_ok)
                             THEN Append(error_files, source_path) ELSE error_files
           /\ converted' = IF saved THEN converted \cup {source_path} ELSE converted
    /\ i' = i + 1
    /\ pc' = IF i + 1 = Len(image_files) THEN "write" ELSE "loop"
    /\ UNCHANGED <<EXIF_AVAILABLE, PIL_AVAILABLE, photoVars, script, config_exists,
                   source_exists, extract_exif, delete_original, disk, listing,
                   image_files, photos_data, exif_summary, written, result>>

\* The report printed after the loop.
ConvertReport ==
    /\ script = "convert" /\ pc = "write"
    /\ written' = [success |-> success_count, total |-> Len(image_files),
                   deleted |-> IF delete_original THEN PyInt(deleted_count) ELSE Absent,
                   failed |-> error_files]
    /\ Return("None")
    /\ UNCHANGED <<EXIF_AVAILABLE, PIL_AVAILABLE, photoVars, script, config_exists,
                   source_exists, extract_exif, delete_original, disk, listing,
                   image_files, i, photos_data, exif_summary, success_count,
                   deleted_count, error_files, on_disk, converted>>

Next ==
    \/ AlbumStart \/ AlbumPhoto \/ AlbumWrite
    \/ WebpStart \/ WebpPhoto \/ WebpWrite
    \/ ConvertStart \/ ConvertFile \/ ConvertReport

Spec == Init /\ [][Next]_vars

(***************************************************************************)
(* Properties of extraction and rendering (checked under SpecExif).        *)
(***************************************************************************)
\* extract_exif_data ran on a readable image with the library present
Extracted == stage # "input" /\ EXIF_AVAILABLE /\ image.opens

IsRational(v) == v.t = "rational"

\* The value of a rational tag as a pair <<numerator, denominator>>, a zero
\* denominator counting as the number 0.
RatValue(r) == IF r.den = 0 THEN <<0, 1>> ELSE <<r.num, r.den>>

\* A tag value that stands for a number: a rational, an integer, or digits.
Numeric(v) == v.t \in {"rational", "int"} \/ (v.t = "str" /\ AllDigits(v.s))

\* A coordinate the conversion accepts: at least three numeric components.
Convertible(c) ==
    c.t = "tuple" /\ Len(c.elems) >= 3 /\ \A k \in 1..3 : Numeric(c.elems[k])

GpsTag(k) == IF image.tags["GPSInfo"].t = "dict" THEN image.tags["GPSInfo"].m[k] ELSE Absent
GpsComplete ==
    /\ \A k \in GpsKeys : GpsTag(k) # Absent
    /\ Convertible(GpsTag("GPSLatitude")) /\ Convertible(GpsTag("GPSLongitude"))

DateMalformed ==
    /\ image.tags["DateTimeOriginal"].t = "str"
    /\ image.tags["DateTimeOriginal"].s # <<>>
    /\ ~strptime(image.tags["DateTimeOriginal"].s, ":").ok

IsTimestamp(v) == v.t = "str" /\ strptime(v.s, "-").ok

\* C3: in the record and in the front matter the capture time is absent or a
\* valid calendar timestamp; a malformed DateTimeOriginal leaves it unset.
C3_CaptureTimeValidOrAbsent ==
    /\ Extracted =>
            exif_data["DateTimeOriginal"] = Absent \/ IsTimestamp(exif_data["DateTimeOriginal"])
    /\ (stage = "rendered" /\ front # Absent /\ front.t = "dict") =>
            front.m["datetime"] = Absent \/ IsTimestamp(front.m["datetime"])

\* C4: without all four GPS sub-tags, or with a coordinate that does not convert,
\* the record has no GPS entry; a GPS entry holds latitude, longitude and the
\* coordinates text together.
C4_GpsAllOrNothing ==
    Extracted =>
        /\ ~GpsComplete => exif_data["GPS"] = Absent
        /\ exif_data["GPS"] # Absent =>
                /\ exif_data["GPS"].t = "dict"
                /\ DOMAIN exif_data["GPS"].m = {"latitude", "longitude", "coordinates"}
                /\ exif_data["GPS"].m["latitude"].t = "float"
                /\ exif_data["GPS"].m["longitude"].t = "float"
                /\ exif_data["GPS"].m["coordinates"].t = "str"
                /\ exif_data["GPS"].m["coordinates"].s # <<>>

\* C4 witness: three of the four sub-tags are present and convertible, one
\* reference is missing, and the record has no GPS entry.
C4_Witness ==
    /\ Extracted
    /\ Convertible(GpsTag("GPSLatitude")) /\ Convertible(GpsTag("GPSLongitude"))
    /\ GpsTag("GPSLatitudeRef") # Absent /\ GpsTag("GPSLongitudeRef") = Absent
    /\ exif_data["GPS"] = Absent

\* C5: a rational tag (n, d) is normalised to n/d when d # 0 and to the integer 0
\* when d = 0; the normalised number is finite.
C5_RationalNormalised ==
    Extracted =>
        \A k \in {"ExposureTime", "FNumber", "FocalLength"} :
            IsRational(image.tags[k]) =>
                IF image.tags[k].den = 0
                THEN exif_data[k] = PyInt(0)
                ELSE /\ exif_data[k].t = "float"
                     /\ exif_data[k].fd > 0
                     /\ exif_data[k].fn * image.tags[k].den = image.tags[k].num * exif_data[k].fd

\* C5 witness: a tag with a zero denominator was normalised to 0.
C5_Witness ==
    /\ Extracted
    /\ IsRational(image.tags["FNumber"]) /\ image.tags["FNumber"].den = 0
    /\ image.tags["FNumber"].num # 0
    /\ exif_data["FNumber"] = PyInt(0)

\* The exposure display is "1/" and an integer nearest to 1/t, for t = n/d.
NearestReciprocal(text, n, d) ==
    \E r \in 0..(d + 1) : text = <<"1", "/">> \o IntStr(r) /\ 2 * Abs(r * n - d) <= n

\* C6: for an exposure time 0 < t < 1 the display is "1/" and the integer nearest
\* to 1/t; for t >= 1 it is t with one decimal.
C6_ExposureDisplay ==
    Extracted /\ IsRational(image.tags["ExposureTime"]) /\ image.tags["ExposureTime"].den # 0
        /\ image.tags["ExposureTime"].num > 0 =>
        LET n == image.tags["ExposureTime"].num
            d == image.tags["ExposureTime"].den
            text == exif_data["ExposureTimeFormatted"].s
        IN IF n < d
           THEN NearestReciprocal(text, n, d)
           ELSE /\ Len(text) >= 3
                /\ text[Len(text) - 1] = "."
                /\ IsDigit(text[Len(text)])
                /\ \A j \in 1..(Len(text) - 2) : IsDigit(text[j])

\* A shooting parameter from which no number can be had; for the exposure time a
\* zero counts, having no reciprocal.
Unconvertible(v) == v = Absent \/ ~Numeric(v) \/ (IsRational(v) /\ v.den = 0)
ZeroValued(v) ==
    \/ (IsRational(v) /\ v.num = 0)
    \/ (v.t = "int" /\ v.i = 0)

\* C7: a shooting parameter that is absent or not a number has no display string
\* in the record.
C7_NoDisplayWithoutNumber ==
    Extracted =>
        /\ (Unconvertible(image.tags["ExposureTime"]) \/ ZeroValued(image.tags["ExposureTime"]))
                => exif_data["ExposureTimeFormatted"] = Absent
        /\ (image.tags["FNumber"] = Absent \/ ~Numeric(image.tags["FNumber"]))
                => exif_data["FNumberFormatted"] = Absent
        /\ (image.tags["FocalLength"] = Absent \/ ~Numeric(image.tags["FocalLength"]))
                => exif_data["FocalLengthFormatted"] = Absent

\* The decimal degrees of a (deg, min, sec) tuple of rationals and a reference.
ExpectedDegrees(c, ref) ==
    LET a == RatValue(c.elems[1])
        b == RatValue(c.elems[2])
        e == RatValue(c.elems[3])
        sign == IF ref = Str(<<"S">>) \/ ref = Str(<<"W">>) THEN -1 ELSE 1
    IN Float(sign * (3600 * a[1] * b[2] * e[2] + 60 * b[1] * a[2] * e[2] + e[1] * a[2] * b[2]),
             3600 * a[2] * b[2] * e[2])
AllRational(c) == Convertible(c) /\ \A k \in 1..3 : IsRational(c.elems[k])

\* C8: decimal_coords gives deg + min/60 + sec/3600, negated exactly for the
\* references "S" and "W".
C8_DecimalCoords ==
    Extracted /\ exif_data["GPS"] # Absent =>
        /\ AllRational(GpsTag("GPSLatitude")) =>
                exif_data["GPS"].m["latitude"]
                    = ExpectedDegrees(GpsTag("GPSLatitude"), GpsTag("GPSLatitudeRef"))
        /\ AllRational(GpsTag("GPSLongitude")) =>
                exif_data["GPS"].m["longitude"]
                    = ExpectedDegrees(GpsTag("GPSLongitude"), GpsTag("GPSLongitudeRef"))

\* C8 witness: a western longitude came out negative.
C8_Witness ==
    /\ Extracted /\ exif_data["GPS"] # Absent
    /\ GpsTag("GPSLongitudeRef") = Str(<<"W">>)
    /\ AllRational(GpsTag("GPSLongitude"))
    /\ exif_data["GPS"].m["longitude"].fn < 0

\* C9: an integer or text tag is in the record as it was in the image, value and
\* type, and the ISO the front matter shows is the integer's own digits.
C9_OtherTypesUnchanged ==
    /\ Extracted =>
            \A k \in {"ExposureTime", "FNumber", "FocalLength", "ISOSpeedRatings"} :
                image.tags[k].t \in {"int", "str"} => exif_data[k] = image.tags[k]
    /\ (stage = "rendered" /\ Extracted /\ front.t = "dict"
            /\ image.tags["ISOSpeedRatings"].t = "int" /\ image.tags["ISOSpeedRatings"].i # 0) =>
            front.m["iso"] = Str(IntStr(image.tags["ISOSpeedRatings"].i))

(***************************************************************************)
(* Properties of the batch runs (checked under Spec).                      *)
(***************************************************************************)
\* C1: a batch that got past its project-root check ends without an exception
\* having left it, with every file of the directory processed, and reports
\* failure only for a missing directory or for no eligible image.
C1_NoFileErrorAbortsBatch ==
    (script # "none" /\ pc = "done" /\ config_exists) =>
        /\ result # "raised"
        /\ result = "False" => (~source_exists \/ listing = <<>>)
        /\ (source_exists /\ listing # <<>>) => i = Len(listing)

\* The month-day hour:minute rendering of the timestamp text s, whose month is at
\* 6..7, day at 9..10 and hour:minute at 12..16.
ShortDate(s) ==
    SubSeq(s, 6, 7) \o MonthSign \o SubSeq(s, 9, 10) \o DaySign \o <<" ">> \o SubSeq(s, 12, 16)
\* The same with the year in front.
LongDate(s) == SubSeq(s, 1, 4) \o YearSign \o ShortDate(s)
Numbered(k) == PhotoWord \o <<" ">> \o IntStr(k)

\* The capture time of the k-th photo of the batch, Absent when it has none: the
\* record's timestamp (album), the first date item of the file when it is a
\* timestamp (WebP album).
DateItems(file) ==
    IF PIL_AVAILABLE /\ file.opens
    THEN SelectSeq(file.items, LAMBDA it : it[1] \in {"DateTime", "DateTimeOriginal"})
    ELSE <<>>
CaptureTime(k) ==
    IF script = "album"
    THEN IF photos_data[k].exif # Absent /\ IsTimestamp(photos_data[k].exif["DateTimeOriginal"])
         THEN photos_data[k].exif["DateTimeOriginal"]
         ELSE Absent
    ELSE LET dates == DateItems(disk[photos_data[k].path.name])
         IN IF dates # <<>> /\ dates[1][2].t = "str" /\ strptime(dates[1][2].s, ":").ok
            THEN dates[1][2]
            ELSE Absent

\* C10 as claimed: in both album scripts the caption of the photo at position k
\* (1-based) is the short date of its capture time, or "Photo k" without one.
C10_CaptionShortDateOrNumbered ==
    script \in {"album", "webp_album"} =>
        \A k \in 1..Len(photos_data) :
            photos_data[k].caption =
                IF CaptureTime(k) # Absent
                THEN Str(ShortDate(CaptureTime(k).s))
                ELSE Str(Numbered(k))

\* C10 as amended: in create_album.py the caption is the short date of the
\* record's capture time, or the word for photo and the 1-based position without
\* one; in utils/create_album.py it is the long date of the first date item when
\* that parses, and empty, not numbered, when the file has no date item.
C10_CaptionPerScript ==
    /\ script = "album" =>
        \A k \in 1..Len(photos_data) :
            photos_data[k].caption =
                IF CaptureTime(k) # Absent
                THEN Str(ShortDate(CaptureTime(k).s))
                ELSE Str(Numbered(k))
    /\ script = "webp_album" =>
        \A k \in 1..Len(photos_data) :
            LET dates == DateItems(disk[photos_data[k].path.name])
            IN  /\ CaptureTime(k) # Absent =>
                        photos_data[k].caption = Str(LongDate(CaptureTime(k).s))
                /\ dates = <<>> => photos_data[k].caption = Str(<<>>)

\* C10 witness: an album of two photos, the first captioned by its capture time,
\* the second, having none, by its 1-based position.
C10_Witness ==
    /\ script = "album" /\ Len(photos_data) = 2
    /\ CaptureTime(1) # Absent
    /\ photos_data[1].caption = Str(<<"1", "1">> \o MonthSign \o <<"0", "6">> \o DaySign
                                    \o <<" ", "1", "4", ":", "3", "0">>)
    /\ CaptureTime(2) = Absent
    /\ photos_data[2].caption = Str(PhotoWord \o <<" ", "2">>)

(***************************************************************************)
(* Properties of the display summary (checked under SpecExif).             *)
(***************************************************************************)
StartsWith(text, prefix) ==
    Len(text) >= Len(prefix) /\ SubSeq(text, 1, Len(prefix)) = prefix

\* The record names a camera: its make or its model is a non-blank text.
NonBlank(v) == v.t = "str" /\ Strip(v.s) # <<>>
CameraPresent == NonBlank(exif_data["Make"]) \/ NonBlank(exif_data["Model"])

\* C11: the display summary opens with the camera section whenever the make or
\* the model is present, and only then; a record with no data gives the empty
\* summary.
C11_DisplaySections ==
    (stage = "rendered" /\ exif_info.t = "str") =>
        /\ IsEmptyDict(exif_data) => exif_info.s = <<>>
        /\ CameraPresent <=> StartsWith(exif_info.s, CameraMark)

(***************************************************************************)
(* Properties of the batch loops (checked under Spec).                     *)
(***************************************************************************)
\* The files the loop has finished or is at, in the order it takes them.
Processed == SubSeq(image_files, 1, i)

\* C12: whatever order the scan returned, the loop of each script takes the
\* files in ascending order of name: the k-th file taken is the k-th smallest
\* name of the directory.
C12_LexicalOrder ==
    pc \in {"loop", "write", "done"} /\ image_files # <<>> =>
        /\ Len(image_files) = Len(listing)
        /\ \A k \in 1..Len(image_files) :
                Cardinality({n \in 1..Len(listing) : listing[n] < image_files[k]}) = k - 1

SourceFiles == 1..Len(disk)

\* C14: with delete_original set, a source file is gone only if its own .webp was
\* written, a file whose conversion failed is still there, every file taken is
\* counted once, as a success or as an error, and as many files were deleted as
\* were converted.
C14_DeleteAndCount ==
    script = "convert" /\ delete_original =>
        /\ \A f \in SourceFiles : f \notin on_disk => f \in converted
        /\ \A k \in 1..i : image_files[k] \notin converted => image_files[k] \in on_disk
        /\ success_count + Len(error_files) = i
        /\ deleted_count = success_count

====
